---- MODULE Spec2Model ----
(***************************************************************************)
(* The HLS server of rtsp-simple-server (internal/core/hls_server.go):     *)
(* the event loop that owns the remuxer registry, the HTTP front end       *)
(* (ServeHTTP), the callbacks of the remuxers and of the path manager, and *)
(* close().                                                                *)
(*                                                                         *)
(* Strings are sequences of symbols.  "/" and "." are the two characters   *)
(* the code looks at; every other symbol ("a", "b", "ts", "m3u8",          *)
(* "favicon.ico") stands for a run of ordinary characters.                 *)
(***************************************************************************)
EXTENDS Naturals, Sequences, FiniteSets

\* ---------------------------------------------------------------- bounds
MaxHandlers == 2
MaxWorkers == 2
MaxChunks == 1
MaxLen == 5
MaxStream == 3

Handlers == 1..MaxHandlers
WorkerIds == 1..MaxWorkers
Closers == {"c1", "c2"}
Notifiers == {"n1"}

\* ------------------------------------------------------- strings, path
Sep == "/"
Dot == "."
SuffixTs == <<".", "ts">>
SuffixM3u8 == <<".", "m3u8">>
Empty == <<>>

HasSuffix(s, suf) ==
    /\ Len(s) >= Len(suf)
    /\ SubSeq(s, Len(s) - Len(suf) + 1, Len(s)) = suf

TrimSuffix(s, suf) ==
    IF HasSuffix(s, suf) THEN SubSeq(s, 1, Len(s) - Len(suf)) ELSE s

\* the index of the last separator of s, 0 when there is none
lastSlash(s) ==
    LET idx == {i \in 1..Len(s) : s[i] = Sep}
    IN  IF idx = {} THEN 0 ELSE CHOOSE i \in idx : \A j \in idx : j <= i

\* path.Clean's ".." step: drop the last element of out, down to dotdot
RECURSIVE backtrack(_, _, _)
backtrack(out, w, dotdot) ==
    IF w > dotdot /\ out[w + 1] # Sep
    THEN backtrack(out, w - 1, dotdot)
    ELSE SubSeq(out, 1, w)

\* the end (exclusive) of the element of path that starts at r
RECURSIVE elemEnd(_, _)
elemEnd(path, r) ==
    IF r <= Len(path) /\ path[r] # Sep THEN elemEnd(path, r + 1) ELSE r

RECURSIVE cleanLoop(_, _, _, _, _)
cleanLoop(path, r, out, dotdot, rooted) ==
    LET n == Len(path) IN
    IF r > n THEN out
    ELSE IF path[r] = Sep
    THEN cleanLoop(path, r + 1, out, dotdot, rooted)
    ELSE IF path[r] = Dot /\ (r = n \/ path[r + 1] = Sep)
    THEN cleanLoop(path, r + 1, out, dotdot, rooted)
    ELSE IF path[r] = Dot /\ path[r + 1] = Dot /\ (r + 1 = n \/ path[r + 2] = Sep)
    THEN IF Len(out) > dotdot
         THEN cleanLoop(path, r + 2, backtrack(out, Len(out) - 1, dotdot),
                        dotdot, rooted)
         ELSE IF ~rooted
         THEN LET o2 == (IF Len(out) > 0 THEN Append(out, Sep) ELSE out)
                            \o <<Dot, Dot>>
              IN  cleanLoop(path, r + 2, o2, Len(o2), rooted)
         ELSE cleanLoop(path, r + 2, out, dotdot, rooted)
    ELSE LET o2 == IF (rooted /\ Len(out) # 1) \/ (~rooted /\ Len(out) # 0)
                   THEN Append(out, Sep) ELSE out
             e == elemEnd(path, r)
         IN  cleanLoop(path, e, o2 \o SubSeq(path, r, e - 1), dotdot, rooted)

\* path.Clean
Clean(path) ==
    IF path = Empty THEN <<Dot>>
    ELSE LET rooted == path[1] = Sep
             out == IF rooted
                    THEN cleanLoop(path, 2, <<Sep>>, 1, TRUE)
                    ELSE cleanLoop(path, 1, Empty, 0, FALSE)
         IN  IF out = Empty THEN <<Dot>> ELSE out

\* path.Dir: everything up to the last separator, cleaned
Dir(path) == Clean(SubSeq(path, 1, lastSlash(path)))

RECURSIVE stripSlashes(_)
stripSlashes(path) ==
    IF Len(path) > 0 /\ path[Len(path)] = Sep
    THEN stripSlashes(SubSeq(path, 1, Len(path) - 1))
    ELSE path

\* path.Base: the last element, trailing separators removed first
Base(path) ==
    IF path = Empty THEN <<Dot>>
    ELSE LET p1 == stripSlashes(path)
             p2 == SubSeq(p1, lastSlash(p1) + 1, Len(p1))
         IN  IF p2 = Empty THEN <<Sep>> ELSE p2

\* ------------------------------------------------------ HTTP front end
Methods == {"GET", "OPTIONS", "POST"}
Favicon == <<"favicon.ico">>

HdrAllowOrigin == "Access-Control-Allow-Origin"
HdrAllowCredentials == "Access-Control-Allow-Credentials"
HdrAllowMethods == "Access-Control-Allow-Methods"
HdrAllowHeaders == "Access-Control-Allow-Headers"
HdrLocation == "Location"

NoMsg == [Dir |-> <<"-">>, File |-> <<"-">>]
NoLocation == <<"-">>

\* the (dir, fname) pair of the closure at the head of the routing
dirFname(pa) ==
    IF HasSuffix(pa, SuffixTs) \/ HasSuffix(pa, SuffixM3u8)
    THEN <<Dir(pa), Base(pa)>>
    ELSE <<pa, Empty>>

\* the resource name without dir = strings.TrimSuffix(dir, "/")
trimDir_None(dir) == dir

\* the resource name put into the request message
trimDir(dir) == TrimSuffix(dir, <<Sep>>)

(* ServeHTTP up to the select: what the handler answers by itself, or the  *)
(* message it is about to submit.  kind is "panic" (the slice of an empty  *)
(* URL path faults), "reply" (answered without the event loop) or "submit".*)
frontEnd(method, urlPath) ==
    IF urlPath = Empty
    THEN [kind |-> "panic", status |-> 0, headers |-> {},
          location |-> NoLocation, msg |-> NoMsg]
    ELSE LET pa == Tail(urlPath)
             base == {HdrAllowOrigin, HdrAllowCredentials}
             df == dirFname(pa)
             dir == df[1]
             fname == df[2]
         IN  IF method = "OPTIONS"
             THEN [kind |-> "reply", status |-> 200,
                   headers |-> base \cup {HdrAllowMethods, HdrAllowHeaders},
                   location |-> NoLocation, msg |-> NoMsg]
             ELSE IF method # "GET"
             THEN [kind |-> "reply", status |-> 404, headers |-> base,
                   location |-> NoLocation, msg |-> NoMsg]
             ELSE IF pa = Empty \/ pa = Favicon
             THEN [kind |-> "reply", status |-> 404, headers |-> base,
                   location |-> NoLocation, msg |-> NoMsg]
             ELSE IF fname = Empty /\ ~HasSuffix(dir, <<Sep>>)
             THEN [kind |-> "reply", status |-> 301,
                   headers |-> base \cup {HdrLocation},
                   location |-> <<Sep>> \o dir \o <<Sep>>, msg |-> NoMsg]
             ELSE [kind |-> "submit", status |-> 0, headers |-> base,
                   location |-> NoLocation,
                   msg |-> [Dir |-> trimDir(dir), File |-> fname]]

\* --------------------------------------------------------------- state
VARIABLES
    cancelled,    \* s.ctx is done (by s.ctxCancel or by the parent context)
    alwaysRemux,  \* s.hlsAlwaysRemux
    remuxers,     \* s.remuxers: path name -> remuxer, a partial function
    wg,           \* the counter of s.wg
    lpc,          \* where run() is: "select", "shutdown", "done"
    workers,      \* the remuxers ever made: [name, st]
    handlers,     \* the ServeHTTP calls
    notifiers,    \* the OnPathSourceReady calls
    closers       \* the close() calls

vars == <<cancelled, alwaysRemux, remuxers, wg, lpc, workers, handlers,
          notifiers, closers>>

NoName == <<"-">>
NoReq == [method |-> "-", path |-> <<"-">>]
NoResp == [status |-> 0, headers |-> {}, location |-> NoLocation]

\* the requests the handlers of the concurrent model serve
Requests ==
    { [method |-> "GET", path |-> <<"/", "a", "/", "x", ".", "ts">>],
      [method |-> "GET", path |-> <<"/", "b", "/">>],
      [method |-> "GET", path |-> <<"/", "a">>],
      [method |-> "GET", path |-> <<"/">>],
      [method |-> "GET", path |-> <<"/", "favicon.ico">>],
      [method |-> "OPTIONS", path |-> <<"/", "a", "/">>],
      [method |-> "POST", path |-> <<"/", "a", "/">>],
      [method |-> "OPTIONS", path |-> Empty] }

\* the URL paths of the front-end model grow from the root, from the
\* favicon path or from the empty URL path of an absolute-form request
\* target, by symbols of Alphabet, to at most MaxLen symbols after the
\* leading separator
Alphabet == {"/", ".", "a", "ts", "m3u8"}
FirstPaths == {<<Sep>>, <<Sep>> \o Favicon, Empty}

\* the path names the path manager reports as ready
ReadyNames == {<<"a">>}

IdleHandler ==
    [pc |-> "idle", req |-> NoReq, msg |-> NoMsg, resp |-> NoResp,
     begun |-> "none", fwd |-> 0, holder |-> 0, res |-> "none",
     nread |-> 0, nwritten |-> 0, nflushed |-> 0, end |-> "none",
     buf |-> 0, wrote |-> <<>>, sent |-> <<>>]

\* newHLSServer: the state once the constructor has returned
Init ==
    /\ cancelled = FALSE
    /\ alwaysRemux \in BOOLEAN
    /\ remuxers = <<>>
    /\ wg = 1
    /\ lpc = "select"
    /\ workers = [w \in WorkerIds |-> [name |-> NoName, st |-> "none"]]
    /\ handlers = [h \in Handlers |-> IdleHandler]
    /\ notifiers = [n \in Notifiers |-> [pc |-> "idle", name |-> NoName]]
    /\ closers = [c \in Closers |-> "idle"]

\* ------------------------------------------------------------ registry
created == {w \in WorkerIds : workers[w].st # "none"}

\* the remuxer newHLSRemuxer returns: the next unused identity
nextId == Cardinality(created) + 1

\* newHLSRemuxer: the worker starts running and counts in s.wg
newHLSRemuxer(pathName) ==
    [workers |-> [workers EXCEPT ![nextId] =
                      [name |-> pathName, st |-> "running"]],
     wg |-> wg + 1]

\* findOrCreateRemuxer without the lookup: a remuxer is made on every call
findOrCreateRemuxer_NoLookup(pathName) ==
    [ok |-> nextId <= MaxWorkers, r |-> nextId,
     remuxers |-> [n \in DOMAIN remuxers \cup {pathName} |->
                       IF n = pathName THEN nextId ELSE remuxers[n]],
     workers |-> newHLSRemuxer(pathName).workers,
     wg |-> newHLSRemuxer(pathName).wg]

\* findOrCreateRemuxer without s.remuxers[pathName] = r
findOrCreateRemuxer_NoStore(pathName) ==
    IF pathName \in DOMAIN remuxers
    THEN [ok |-> TRUE, r |-> remuxers[pathName], remuxers |-> remuxers,
          workers |-> workers, wg |-> wg]
    ELSE [ok |-> nextId <= MaxWorkers, r |-> nextId, remuxers |-> remuxers,
          workers |-> newHLSRemuxer(pathName).workers,
          wg |-> newHLSRemuxer(pathName).wg]

\* findOrCreateRemuxer: ok is false when the model has no identity left
findOrCreateRemuxer(pathName) ==
    IF pathName \in DOMAIN remuxers
    THEN [ok |-> TRUE, r |-> remuxers[pathName], remuxers |-> remuxers,
          workers |-> workers, wg |-> wg]
    ELSE [ok |-> nextId <= MaxWorkers, r |-> nextId,
          remuxers |-> [n \in DOMAIN remuxers \cup {pathName} |->
                            IF n = pathName THEN nextId ELSE remuxers[n]],
          workers |-> newHLSRemuxer(pathName).workers,
          wg |-> newHLSRemuxer(pathName).wg]

\* the identity test of the closure case inverted
remuxerCloseEffect_Inverted(c) ==
    LET name == workers[c].name IN
    IF name \in DOMAIN remuxers /\ remuxers[name] = c
    THEN remuxers
    ELSE [n \in DOMAIN remuxers \ {name} |-> remuxers[n]]

\* case c := <-s.remuxerClose: the registry afterwards
remuxerCloseEffect(c) ==
    LET name == workers[c].name IN
    IF ~(name \in DOMAIN remuxers) \/ remuxers[name] # c
    THEN remuxers
    ELSE [n \in DOMAIN remuxers \ {name} |-> remuxers[n]]

\* a loop that goes on receiving after it has seen the context done (its
\* break leaving the select only)
loopReceiving_AfterExit == lpc \in {"select", "shutdown"}

\* a loop that still receives when run() has returned
loopReceiving_Always == TRUE

\* the loop is in its select and takes whichever ready case
loopReceiving == lpc = "select"

\* ---------------------------------------------------------- ServeHTTP
\* the service's phase as a handler reaches the select
phase == IF ~cancelled THEN "live"
         ELSE IF lpc = "select" THEN "cancelled" ELSE "exited"

\* lines 135-185: the front end, up to the select.  The calls are
\* interchangeable, so they are numbered in the order in which they start.
ServeStart(h, req) ==
    /\ handlers[h].pc = "idle"
    /\ \A g \in Handlers : g < h => handlers[g].pc # "idle"
    /\ lpc # "done"
    /\ LET fe == frontEnd(req.method, req.path) IN
       handlers' = [handlers EXCEPT ![h] =
           [@ EXCEPT !.req = req,
                     !.pc = CASE fe.kind = "panic" -> "panic"
                              [] fe.kind = "reply" -> "done"
                              [] OTHER -> "submit",
                     !.end = IF fe.kind = "reply" THEN "answered" ELSE "none",
                     !.begun = IF fe.kind = "submit" THEN phase ELSE "none",
                     !.msg = fe.msg,
                     !.resp = [status |-> fe.status, headers |-> fe.headers,
                               location |-> fe.location]]]
    /\ UNCHANGED <<cancelled, alwaysRemux, remuxers, wg, lpc, workers,
                   notifiers, closers>>

HandlerStart(h) == \E req \in Requests : ServeStart(h, req)

\* a handler that also gives up its wait for the reply when the context is
\* done
HandlerAbandon_AlsoWaiting(h) ==
    /\ handlers[h].pc \in {"submit", "waitReply"}
    /\ cancelled
    /\ handlers' = [handlers EXCEPT ![h] =
                        [@ EXCEPT !.pc = "done", !.end = "abandoned"]]
    /\ UNCHANGED <<cancelled, alwaysRemux, remuxers, wg, lpc, workers,
                   notifiers, closers>>

\* case <-s.ctx.Done() of the handler's select
HandlerAbandon(h) ==
    /\ handlers[h].pc = "submit"
    /\ cancelled
    /\ handlers' = [handlers EXCEPT ![h] =
                        [@ EXCEPT !.pc = "done", !.end = "abandoned"]]
    /\ UNCHANGED <<cancelled, alwaysRemux, remuxers, wg, lpc, workers,
                   notifiers, closers>>

\* hlsRemuxer.OnRequest: the worker r now holds the message of h
\* (begun describes a pending submission, and is forgotten with it)
OnRequest(r, h) ==
    [handlers EXCEPT ![h] =
         [@ EXCEPT !.pc = "waitReply", !.fwd = r, !.holder = r,
                   !.begun = "none"]]

\* case s.request <- hreq, met by case req := <-s.request of the loop
LoopRequest(h) ==
    /\ loopReceiving
    /\ handlers[h].pc = "submit"
    /\ LET fc == findOrCreateRemuxer(handlers[h].msg.Dir) IN
       /\ fc.ok
       /\ remuxers' = fc.remuxers
       /\ workers' = fc.workers
       /\ wg' = fc.wg
       /\ handlers' = OnRequest(fc.r, h)
    /\ UNCHANGED <<cancelled, alwaysRemux, lpc, notifiers, closers>>

\* the handler without the test of res against nil
afterReply_NoNilCheck(v) == "read"

\* if res != nil { ... }: where the handler goes with the reply v
afterReply(v) == IF v # "nil" THEN "read" ELSE "done"

\* res := <-cres, met by the worker's write; nil ends the handler
WorkerReply(w, h, v) ==
    /\ handlers[h].pc = "waitReply"
    /\ handlers[h].holder = w
    /\ v = "stream" => workers[w].st = "running"
    /\ handlers' = [handlers EXCEPT ![h] =
           [@ EXCEPT !.holder = 0, !.res = v,
                     !.pc = afterReply(v),
                     !.end = IF afterReply(v) = "done" THEN "absent"
                             ELSE "none"]]
    /\ UNCHANGED <<cancelled, alwaysRemux, remuxers, wg, lpc, workers,
                   notifiers, closers>>

\* a worker that is closing or has closed lets go of a message unanswered
WorkerDrop(w, h) ==
    /\ handlers[h].pc = "waitReply"
    /\ handlers[h].holder = w
    /\ workers[w].st # "running"
    /\ handlers' = [handlers EXCEPT ![h] = [@ EXCEPT !.holder = 0]]
    /\ UNCHANGED <<cancelled, alwaysRemux, remuxers, wg, lpc, workers,
                   notifiers, closers>>

\* n, err := res.Read(buf): the stream hands over its next chunk (the
\* chunks of a stream are numbered 1, 2, ...; it has at most limit of
\* them), or the read fails
readChunk(h, limit) ==
    /\ handlers[h].pc = "read"
    /\ \/ /\ handlers[h].nread < limit
          /\ handlers' = [handlers EXCEPT ![h] =
                 [@ EXCEPT !.pc = "write", !.nread = @ + 1,
                           !.buf = handlers[h].nread + 1]]
       \/ handlers' = [handlers EXCEPT ![h] =
                 [@ EXCEPT !.pc = "done", !.end = "readErr"]]
    /\ UNCHANGED <<cancelled, alwaysRemux, remuxers, wg, lpc, workers,
                   notifiers, closers>>

HandlerRead(h) == readChunk(h, MaxChunks)

\* _, err = w.Write(buf[:n])
HandlerWrite(h) ==
    /\ handlers[h].pc = "write"
    /\ \/ handlers' = [handlers EXCEPT ![h] =
                 [@ EXCEPT !.pc = "flush", !.nwritten = @ + 1,
                           !.wrote = Append(@, handlers[h].buf)]]
       \/ handlers' = [handlers EXCEPT ![h] =
                 [@ EXCEPT !.pc = "done", !.end = "writeErr"]]
    /\ UNCHANGED <<cancelled, alwaysRemux, remuxers, wg, lpc, workers,
                   notifiers, closers>>

\* the loop of the handler without w.(http.Flusher).Flush()
HandlerFlush_Skipped(h) ==
    /\ handlers[h].pc = "flush"
    /\ handlers' = [handlers EXCEPT ![h] = [@ EXCEPT !.pc = "read"]]
    /\ UNCHANGED <<cancelled, alwaysRemux, remuxers, wg, lpc, workers,
                   notifiers, closers>>

\* w.(http.Flusher).Flush(): what was written reaches the client
HandlerFlush(h) ==
    /\ handlers[h].pc = "flush"
    /\ handlers' = [handlers EXCEPT ![h] =
           [@ EXCEPT !.pc = "read", !.nflushed = @ + 1,
                     !.sent = handlers[h].wrote]]
    /\ UNCHANGED <<cancelled, alwaysRemux, remuxers, wg, lpc, workers,
                   notifiers, closers>>

\* ------------------------------------------------------------- workers
\* the worker stops, of its own accord or because the context is done
WorkerClose(w) ==
    /\ workers[w].st = "running"
    /\ workers' = [workers EXCEPT ![w].st = "closing"]
    /\ UNCHANGED <<cancelled, alwaysRemux, remuxers, wg, lpc, handlers,
                   notifiers, closers>>

\* OnRemuxerClose: case s.remuxerClose <- c, met by the loop's case
LoopRemuxerClose(w) ==
    /\ loopReceiving
    /\ workers[w].st = "closing"
    /\ remuxers' = remuxerCloseEffect(w)
    /\ workers' = [workers EXCEPT ![w].st = "closed"]
    /\ UNCHANGED <<cancelled, alwaysRemux, wg, lpc, handlers, notifiers,
                   closers>>

\* OnRemuxerClose deleting the entry by itself when the context is done
WorkerCloseAbandon_Unregister(w) ==
    /\ workers[w].st = "closing"
    /\ cancelled
    /\ workers' = [workers EXCEPT ![w].st = "closed"]
    /\ remuxers' = [n \in DOMAIN remuxers \ {workers[w].name} |-> remuxers[n]]
    /\ UNCHANGED <<cancelled, alwaysRemux, wg, lpc, handlers, notifiers,
                   closers>>

\* OnRemuxerClose: case <-s.ctx.Done()
WorkerCloseAbandon(w) ==
    /\ workers[w].st = "closing"
    /\ cancelled
    /\ workers' = [workers EXCEPT ![w].st = "closed"]
    /\ UNCHANGED <<cancelled, alwaysRemux, remuxers, wg, lpc, handlers,
                   notifiers, closers>>

\* the worker's wg.Done()
WorkerDone(w) ==
    /\ workers[w].st = "closed"
    /\ workers' = [workers EXCEPT ![w].st = "finished"]
    /\ wg' = wg - 1
    /\ UNCHANGED <<cancelled, alwaysRemux, remuxers, lpc, handlers,
                   notifiers, closers>>

\* ---------------------------------------------------- OnPathSourceReady
NotifyStart(n) ==
    /\ notifiers[n].pc = "idle"
    /\ lpc # "done"
    /\ \E name \in ReadyNames :
           notifiers' = [notifiers EXCEPT ![n] =
                             [pc |-> "sending", name |-> name]]
    /\ UNCHANGED <<cancelled, alwaysRemux, remuxers, wg, lpc, workers,
                   handlers, closers>>

\* a loop that makes a remuxer on every source-ready event
sourceReadyCreates_Always == TRUE

\* if s.hlsAlwaysRemux
sourceReadyCreates == alwaysRemux

\* case s.pathSourceReady <- pa, met by the loop's case
LoopPathSourceReady(n) ==
    /\ loopReceiving
    /\ notifiers[n].pc = "sending"
    /\ IF sourceReadyCreates
       THEN LET fc == findOrCreateRemuxer(notifiers[n].name) IN
            /\ fc.ok
            /\ remuxers' = fc.remuxers
            /\ workers' = fc.workers
            /\ wg' = fc.wg
       ELSE UNCHANGED <<remuxers, workers, wg>>
    /\ notifiers' = [notifiers EXCEPT ![n].pc = "delivered"]
    /\ UNCHANGED <<cancelled, alwaysRemux, lpc, handlers, closers>>

\* OnPathSourceReady as a bare send, without the case <-s.ctx.Done()
NotifyAbandon_BareSend(n) == FALSE /\ UNCHANGED vars

\* case <-s.ctx.Done()
NotifyAbandon(n) ==
    /\ notifiers[n].pc = "sending"
    /\ cancelled
    /\ notifiers' = [notifiers EXCEPT ![n].pc = "dropped"]
    /\ UNCHANGED <<cancelled, alwaysRemux, remuxers, wg, lpc, workers,
                   handlers, closers>>

\* ------------------------------------------------------ run() and close()
\* case <-s.ctx.Done() with a break that leaves the select only
LoopShutdown_BreakSelect == loopReceiving /\ cancelled /\ UNCHANGED vars

\* case <-s.ctx.Done(): break outer; s.ctxCancel()
LoopShutdown ==
    /\ loopReceiving
    /\ cancelled
    /\ lpc' = "shutdown"
    /\ UNCHANGED <<cancelled, alwaysRemux, remuxers, wg, workers, handlers,
                   notifiers, closers>>

inFlight == {h \in Handlers : handlers[h].pc \notin {"idle", "done", "panic"}}

\* hs.Shutdown returns once no handler is active; then the deferred wg.Done
LoopDone ==
    /\ lpc = "shutdown"
    /\ inFlight = {}
    /\ lpc' = "done"
    /\ wg' = wg - 1
    /\ UNCHANGED <<cancelled, alwaysRemux, remuxers, workers, handlers,
                   notifiers, closers>>

\* close() without s.wg.Wait()
wgWaitReady_NoWait == TRUE

\* wg.Wait() may return
wgWaitReady == wg = 0

\* close(): s.ctxCancel().  The callers are interchangeable: c2 names the
\* second call.
CloseCall(c) ==
    /\ closers[c] = "idle"
    /\ c = "c2" => closers["c1"] # "idle"
    /\ closers' = [closers EXCEPT ![c] = "waiting"]
    /\ cancelled' = TRUE
    /\ UNCHANGED <<alwaysRemux, remuxers, wg, lpc, workers, handlers,
                   notifiers>>

\* close(): s.wg.Wait() returns, "closed" is logged
CloseReturn(c) ==
    /\ closers[c] = "waiting"
    /\ wgWaitReady
    /\ closers' = [closers EXCEPT ![c] = "returned"]
    /\ UNCHANGED <<cancelled, alwaysRemux, remuxers, wg, lpc, workers,
                   handlers, notifiers>>

\* the parent context of s.ctx is cancelled
ParentCancel ==
    /\ ~cancelled
    /\ cancelled' = TRUE
    /\ UNCHANGED <<alwaysRemux, remuxers, wg, lpc, workers, handlers,
                   notifiers, closers>>

Next ==
    \/ \E h \in Handlers : HandlerStart(h)
    \/ \E h \in Handlers : HandlerAbandon(h)
    \/ \E h \in Handlers : LoopRequest(h)
    \/ \E w \in WorkerIds, h \in Handlers, v \in {"nil", "stream"} :
           WorkerReply(w, h, v)
    \/ \E w \in WorkerIds, h \in Handlers : WorkerDrop(w, h)
    \/ \E h \in Handlers : HandlerRead(h)
    \/ \E h \in Handlers : HandlerWrite(h)
    \/ \E h \in Handlers : HandlerFlush(h)
    \/ \E w \in WorkerIds : WorkerClose(w)
    \/ \E w \in WorkerIds : LoopRemuxerClose(w)
    \/ \E w \in WorkerIds : WorkerCloseAbandon(w)
    \/ \E w \in WorkerIds : WorkerDone(w)
    \/ \E n \in Notifiers : NotifyStart(n)
    \/ \E n \in Notifiers : LoopPathSourceReady(n)
    \/ \E n \in Notifiers : NotifyAbandon(n)
    \/ LoopShutdown
    \/ LoopDone
    \/ \E c \in Closers : CloseCall(c)
    \/ \E c \in Closers : CloseReturn(c)
    \/ ParentCancel

Spec == Init /\ [][Next]_vars

(* The service with one HTTP request, under the scheduling Go gives its    *)
(* steps.  A goroutine whose select has a ready case goes on, and a select *)
(* with several ready cases picks among them at random, so a case that     *)
(* stays ready is taken in the end: the notifier's and the loop's          *)
(* case <-s.ctx.Done(), and the loop's case <-s.pathSourceReady while a    *)
(* notifier is sending.                                                    *)
FairNext ==
    \/ HandlerStart(1)
    \/ \E h \in Handlers : HandlerAbandon(h)
    \/ \E h \in Handlers : LoopRequest(h)
    \/ \E w \in WorkerIds, h \in Handlers, v \in {"nil", "stream"} :
           WorkerReply(w, h, v)
    \/ \E w \in WorkerIds, h \in Handlers : WorkerDrop(w, h)
    \/ \E h \in Handlers : HandlerRead(h)
    \/ \E h \in Handlers : HandlerWrite(h)
    \/ \E h \in Handlers : HandlerFlush(h)
    \/ \E w \in WorkerIds : WorkerClose(w)
    \/ \E w \in WorkerIds : LoopRemuxerClose(w)
    \/ \E w \in WorkerIds : WorkerCloseAbandon(w)
    \/ \E w \in WorkerIds : WorkerDone(w)
    \/ \E n \in Notifiers : NotifyStart(n)
    \/ \E n \in Notifiers : LoopPathSourceReady(n)
    \/ \E n \in Notifiers : NotifyAbandon(n)
    \/ LoopShutdown
    \/ LoopDone
    \/ \E c \in Closers : CloseCall(c)
    \/ \E c \in Closers : CloseReturn(c)
    \/ ParentCancel

FairSpec ==
    /\ Init /\ [][FairNext]_vars
    /\ \A n \in Notifiers : WF_vars(LoopPathSourceReady(n))
    /\ \A n \in Notifiers : WF_vars(NotifyAbandon(n))
    /\ WF_vars(LoopShutdown)

\* the front end alone: a request of any method and path arrives at
\* handler 1, which serves it
FrontArrive ==
    /\ handlers[1].pc = "idle"
    /\ handlers[1].req = NoReq
    /\ \E m \in Methods, p \in FirstPaths :
           handlers' = [handlers EXCEPT ![1].req = [method |-> m, path |-> p]]
    /\ UNCHANGED <<cancelled, alwaysRemux, remuxers, wg, lpc, workers,
                   notifiers, closers>>

FrontExtend ==
    /\ handlers[1].pc = "idle"
    /\ handlers[1].req # NoReq
    /\ handlers[1].req.path # Empty
    /\ Len(handlers[1].req.path) <= MaxLen
    /\ \E c \in Alphabet :
           handlers' = [handlers EXCEPT ![1].req.path = Append(@, c)]
    /\ UNCHANGED <<cancelled, alwaysRemux, remuxers, wg, lpc, workers,
                   notifiers, closers>>

FrontServe ==
    /\ handlers[1].req # NoReq
    /\ ServeStart(1, handlers[1].req)

FrontNext == FrontArrive \/ FrontExtend \/ FrontServe

FrontSpec == Init /\ [][FrontNext]_vars

\* the handlers alone, with streams of up to MaxStream chunks
StreamRead(h) == readChunk(h, MaxStream)

StreamNext ==
    \/ \E h \in Handlers : HandlerStart(h)
    \/ \E h \in Handlers : LoopRequest(h)
    \/ \E w \in WorkerIds, h \in Handlers, v \in {"nil", "stream"} :
           WorkerReply(w, h, v)
    \/ \E h \in Handlers : StreamRead(h)
    \/ \E h \in Handlers : HandlerWrite(h)
    \/ \E h \in Handlers : HandlerFlush(h)

StreamSpec == Init /\ [][StreamNext]_vars

\* ============================================================== claims
workersOf(n) == {w \in created : workers[w].name = n}
liveOf(n) == {w \in workersOf(n) : workers[w].st = "running"}
usedNames == {workers[w].name : w \in created}
                 \cup {handlers[h].msg.Dir : h \in Handlers} \cup ReadyNames
acceptedFor(n) ==
    {h \in Handlers : handlers[h].fwd # 0 /\ handlers[h].msg.Dir = n}

\* C1: in every reachable state every resource name has at most one live
\* worker (created and not yet closed), whatever the interleaving of
\* requests, source-ready events, closures and shutdown.
C1_AtMostOneLiveWorker == \A n \in usedNames : Cardinality(liveOf(n)) <= 1

\* C1 witness: a worker of a name has closed and a later worker of the same
\* name is live.
C1_Witness ==
    \E w1, w2 \in created :
        /\ w1 < w2
        /\ workers[w1].name = workers[w2].name
        /\ workers[w1].st # "running"
        /\ workers[w2].st = "running"

\* C2: as long as no worker of a name has closed, at most one worker was
\* ever made for the name, it is the registered one, every request for the
\* name that the loop accepted was forwarded to it, and it exists as soon
\* as a request was accepted or (eager mode) a source-ready event was
\* delivered.
C2_OneWorkerSharedByAll ==
    \A n \in usedNames :
        (\A w \in workersOf(n) : workers[w].st = "running") =>
            /\ Cardinality(workersOf(n)) <= 1
            /\ \A w \in workersOf(n) :
                   n \in DOMAIN remuxers /\ remuxers[n] = w
            /\ \A h \in acceptedFor(n) : handlers[h].fwd \in workersOf(n)
            /\ (alwaysRemux /\ \E k \in Notifiers :
                    notifiers[k] = [pc |-> "delivered", name |-> n])
                   => workersOf(n) # {}

\* C2 witness: two requests and a source-ready event for one name were all
\* taken by the loop, in eager mode, and one running worker serves them.
C2_Witness ==
    \E n \in usedNames :
        /\ alwaysRemux
        /\ Cardinality(acceptedFor(n)) >= 2
        /\ \E k \in Notifiers : notifiers[k] = [pc |-> "delivered", name |-> n]
        /\ Cardinality(workersOf(n)) = 1
        /\ \A w \in workersOf(n) : workers[w].st = "running"

C7_SuspensionsRacedWithCancel ==
    cancelled =>
        /\ \A h \in Handlers :
               handlers[h].pc \in {"submit", "waitReply"}
                   => ENABLED HandlerAbandon(h)
        /\ \A w \in WorkerIds :
               workers[w].st = "closing" => ENABLED WorkerCloseAbandon(w)
        /\ \A n \in Notifiers :
               notifiers[n].pc = "sending" => ENABLED NotifyAbandon(n)

\* ---- the directory part of a path, stated on its elements (for C8)
\* the elements of s between its separators, empty ones included
RECURSIVE elements(_)
elements(s) ==
    LET i == lastSlash(s) IN
    IF i = 0 THEN <<s>>
    ELSE Append(elements(SubSeq(s, 1, i - 1)), SubSeq(s, i + 1, Len(s)))

\* the elements that remain once "", "." and ".." are resolved
RECURSIVE resolve(_, _, _)
resolve(els, stack, rooted) ==
    IF els = <<>> THEN stack
    ELSE LET e == Head(els) IN
         IF e = Empty \/ e = <<Dot>>
         THEN resolve(Tail(els), stack, rooted)
         ELSE IF e = <<Dot, Dot>>
         THEN IF stack # <<>> /\ stack[Len(stack)] # <<Dot, Dot>>
              THEN resolve(Tail(els), SubSeq(stack, 1, Len(stack) - 1), rooted)
              ELSE IF rooted THEN resolve(Tail(els), stack, rooted)
              ELSE resolve(Tail(els), Append(stack, e), rooted)
         ELSE resolve(Tail(els), Append(stack, e), rooted)

RECURSIVE join(_)
join(els) ==
    IF els = <<>> THEN Empty
    ELSE IF Len(els) = 1 THEN els[1]
    ELSE join(SubSeq(els, 1, Len(els) - 1)) \o <<Sep>> \o els[Len(els)]

\* the directory part of pa: what precedes its last element, with empty,
\* "." and ".." elements resolved; "/" for the root, "." for no directory
directoryPart(pa) ==
    LET els == elements(pa)
        dirEls == SubSeq(els, 1, Len(els) - 1)
        rooted == Len(els) > 1 /\ els[1] = Empty
        kept == join(resolve(dirEls, <<>>, rooted))
    IN  IF rooted THEN <<Sep>> \o kept
        ELSE IF kept = Empty THEN <<Dot>> ELSE kept

lastComponent(pa) == LET els == elements(pa) IN els[Len(els)]

\* the request handler 1 of the front-end model has served, if it is a GET
\* whose path is neither empty nor the favicon path
routed ==
    /\ handlers[1].pc # "idle"
    /\ handlers[1].req.method = "GET"
    /\ handlers[1].req.path # Empty
    /\ Tail(handlers[1].req.path) \notin {Empty, Favicon}

hasAssetSuffix(pa) == HasSuffix(pa, SuffixTs) \/ HasSuffix(pa, SuffixM3u8)

\* what C8 says of a path without asset suffix
C8_NoSuffixCases(pa) ==
    IF pa[Len(pa)] # Sep
    THEN /\ handlers[1].pc = "done"
         /\ handlers[1].resp.status = 301
         /\ handlers[1].resp.location = <<Sep>> \o pa \o <<Sep>>
         /\ handlers[1].msg = NoMsg
    ELSE /\ handlers[1].pc = "submit"
         /\ handlers[1].msg =
                [Dir |-> SubSeq(pa, 1, Len(pa) - 1), File |-> Empty]

C9_RejectedAtFrontEnd ==
    \A h \in Handlers :
        LET req == handlers[h].req
            pa == IF req.path = Empty THEN Empty ELSE Tail(req.path)
            rejected == req.method # "GET" \/ pa \in {Empty, Favicon}
        IN  (handlers[h].pc # "idle" /\ rejected) =>
                /\ handlers[h].pc = "done"
                /\ handlers[h].end = "answered"
                /\ handlers[h].resp.status =
                       IF req.method = "OPTIONS" THEN 200 ELSE 404
                /\ req.method = "OPTIONS" =>
                       {HdrAllowMethods, HdrAllowHeaders}
                           \subseteq handlers[h].resp.headers
                /\ handlers[h].fwd = 0
                /\ handlers[h].msg = NoMsg

\* C10: when the reply slot is filled with the absent value, the handler
\* ends there: it has read nothing from a stream, written and flushed
\* nothing; the registry, the workers and the other handlers are as before.
C10_AbsentReplyWritesNothing ==
    [][\A h \in Handlers :
          (handlers[h].pc = "waitReply" /\ handlers'[h].res = "nil")
          => /\ handlers'[h].pc = "done"
             /\ handlers'[h].end = "absent"
             /\ handlers'[h].nread = 0
             /\ handlers'[h].nwritten = 0
             /\ handlers'[h].nflushed = 0
             /\ remuxers' = remuxers
             /\ workers' = workers
             /\ \A g \in Handlers \ {h} : handlers'[g] = handlers[g]]_vars

\* C10 witness: a handler got the absent reply and ended with no body while
\* another request was in flight.
C10_Witness ==
    \E h, g \in Handlers :
        /\ handlers[h].res = "nil"
        /\ handlers[h].pc = "done"
        /\ handlers[h].nwritten = 0
        /\ handlers[g].pc \in {"waitReply", "read", "write", "flush"}

\* ---- C11
\* the first k chunks of a stream
produced(k) == [i \in 1..k |-> i]

isPrefix(s, t) == Len(s) <= Len(t) /\ s = SubSeq(t, 1, Len(s))

streaming(h) == handlers[h].pc \in {"read", "write", "flush"}

\* C11: the chunks the client has been sent are, in order, the first chunks
\* the stream produced, and so are the chunks written; a read starts only
\* when every chunk read before was written and flushed, a write only with
\* the one chunk just read outstanding; a handler that ended on a read or
\* write error reads, writes and flushes no more.
C11_ChunkByChunk ==
    /\ [](\A h \in Handlers :
            LET H == handlers[h] IN
            /\ isPrefix(H.sent, H.wrote)
            /\ isPrefix(H.wrote, produced(H.nread))
            /\ H.pc = "read" => H.sent = produced(H.nread)
            /\ H.pc = "write" =>
                   /\ H.sent = produced(H.nread - 1)
                   /\ H.wrote = H.sent
                   /\ H.buf = H.nread
            /\ H.pc = "flush" =>
                   /\ H.wrote = produced(H.nread)
                   /\ H.sent = produced(H.nread - 1))
    /\ [][\A h \in Handlers :
             handlers[h].end \in {"readErr", "writeErr"} =>
                 /\ handlers'[h].pc = "done"
                 /\ handlers'[h].nread = handlers[h].nread
                 /\ handlers'[h].wrote = handlers[h].wrote
                 /\ handlers'[h].sent = handlers[h].sent
                 /\ handlers'[h].nflushed = handlers[h].nflushed]_vars

\* C11 witness: two chunks were sent, the third was read and its write
\* failed; the handler has ended
C11_Witness ==
    \E h \in Handlers :
        /\ handlers[h].end = "writeErr"
        /\ handlers[h].nread = 3
        /\ handlers[h].sent = <<1, 2>>
        /\ handlers[h].wrote = <<1, 2>>

\* ---- C12
\* C12: a step in which the loop takes SourceReady(name) leaves, in eager
\* mode, a worker registered for name: the registered one, with nothing
\* made, if there was one, else exactly one new worker of that name; no
\* handler is replied to.  In lazy mode the registry and the workers are
\* left as they are.
C12_SourceReadyEffect ==
    [][\A n \in Notifiers :
          LoopPathSourceReady(n) =>
              LET name == notifiers[n].name IN
              /\ handlers' = handlers
              /\ IF alwaysRemux
                 THEN /\ name \in DOMAIN remuxers'
                      /\ \A m \in DOMAIN remuxers :
                             m \in DOMAIN remuxers' /\ remuxers'[m] = remuxers[m]
                      /\ DOMAIN remuxers' = DOMAIN remuxers \cup {name}
                      /\ \A w \in created : workers'[w] = workers[w]
                      /\ IF name \in DOMAIN remuxers
                         THEN workers' = workers
                         ELSE /\ Cardinality(created') = Cardinality(created) + 1
                              /\ remuxers'[name] \notin created
                              /\ workers'[remuxers'[name]] =
                                     [name |-> name, st |-> "running"]
                 ELSE remuxers' = remuxers /\ workers' = workers]_vars

\* C12 witness: in eager mode a source-ready event was taken while no
\* request had been accepted, and a running worker is registered for its
\* name
C12_Witness ==
    \E n \in Notifiers :
        /\ alwaysRemux
        /\ notifiers[n].pc = "delivered"
        /\ \A h \in Handlers : handlers[h].fwd = 0
        /\ notifiers[n].name \in DOMAIN remuxers
        /\ workers[remuxers[notifiers[n].name]] =
               [name |-> notifiers[n].name, st |-> "running"]

\* ---- C13
\* the model has no identity left for one more remuxer
exhausted == nextId > MaxWorkers

\* C13: a source-ready call is taken by the loop at most once (once taken
\* it stays so) and is dropped only when the context is cancelled; a call
\* that is sending while the service stays live is taken by the loop in the
\* end (unless the model has run out of remuxer identities); a call that is sending when the context is cancelled returns,
\* whether or not the loop has left its select.
C13_SourceReadyDelivery ==
    /\ [](\A n \in Notifiers : notifiers[n].pc = "dropped" => cancelled)
    /\ [][\A n \in Notifiers :
             /\ notifiers[n].pc \in {"delivered", "dropped"}
                    => notifiers'[n] = notifiers[n]
             /\ (notifiers[n].pc # "delivered" /\ notifiers'[n].pc = "delivered")
                    => LoopPathSourceReady(n)]_vars
    /\ \A n \in Notifiers :
           (notifiers[n].pc = "sending")
               ~> (notifiers[n].pc = "delivered" \/ cancelled
                       \/ (alwaysRemux /\ exhausted
                              /\ notifiers[n].name \notin DOMAIN remuxers))
    /\ \A n \in Notifiers :
           (notifiers[n].pc = "sending" /\ cancelled)
               ~> (notifiers[n].pc \in {"delivered", "dropped"})

\* C13 witness: a call was dropped and has returned with the loop out of
\* its select and every remuxer finished
C13_Witness ==
    \E n \in Notifiers :
        /\ notifiers[n].pc = "dropped"
        /\ lpc # "select"
        /\ \A w \in created : workers[w].st = "finished"

\* ---- C14
\* C14: in every step an entry that is in the registry before and after
\* is the same; an entry that appears does so in a step of the loop taking
\* a request for that name or, in eager mode, a source-ready event for that
\* name, the name being absent before; an entry that disappears does so in
\* the step of the loop taking the closure of the worker the entry refers
\* to.  Hence every other step leaves the registry as it is.
C14_RegistryChangedByLoopOnly ==
    [][/\ \A m \in DOMAIN remuxers \cap DOMAIN remuxers' :
             remuxers'[m] = remuxers[m]
       /\ \A m \in DOMAIN remuxers' \ DOMAIN remuxers :
             \/ \E h \in Handlers :
                    LoopRequest(h) /\ handlers[h].msg.Dir = m
             \/ \E n \in Notifiers :
                    LoopPathSourceReady(n) /\ alwaysRemux
                        /\ notifiers[n].name = m
       /\ \A m \in DOMAIN remuxers \ DOMAIN remuxers' :
             LoopRemuxerClose(remuxers[m])
       /\ remuxers' # remuxers => lpc = "select" /\ lpc' = "select"]_vars

\* C14 witness: while the service is live the registry is empty again, the
\* one entry it had having been removed on the closure of its worker
C14_Witness ==
    /\ ~cancelled
    /\ DOMAIN remuxers = {}
    /\ \E w \in created : workers[w].st \in {"closed", "finished"}

\* ---- C15
\* C15: once the context is cancelled the loop leaves its select in the
\* end; once it has left, it never is in its select again and no step is the
\* loop taking a request, a source-ready event or a closure: no request is
\* forwarded, no notification delivered, the registry and the set of
\* remuxers made stay as they are.
C15_LoopExitsOnCancel ==
    /\ cancelled ~> (lpc # "select")
    /\ [][lpc # "select" =>
             /\ lpc' # "select"
             /\ \A h \in Handlers :
                    ~LoopRequest(h) /\ handlers'[h].fwd = handlers[h].fwd
             /\ \A n \in Notifiers :
                    /\ ~LoopPathSourceReady(n)
                    /\ notifiers'[n].pc = "delivered"
                           => notifiers[n].pc = "delivered"
             /\ \A w \in WorkerIds : ~LoopRemuxerClose(w)
             /\ remuxers' = remuxers
             /\ created' = created]_vars

\* C15 witness: the loop has left its select and has finished; a
\* source-ready call and the closure of a remuxer, still registered, were
\* not taken
C15_Witness ==
    /\ lpc = "done"
    /\ \E n \in Notifiers : notifiers[n].pc = "dropped"
    /\ \E w \in created :
           workers[w].st = "closed" /\ workers[w].name \in DOMAIN remuxers

\* ---- C16
\* C16: a message is held by a worker only while its handler waits at the
\* reply slot; a handler whose message the loop accepted is at its one read
\* of the slot or has completed it; an abandoned request was never
\* forwarded, is held by no worker and its slot was neither written nor
\* read.  The slot is read in a step from the wait, with the message held
\* by a worker, and not a second time.
C16_ReplySlotReadOnce ==
    /\ [](\A h \in Handlers :
            LET H == handlers[h] IN
            /\ H.holder # 0 => H.pc = "waitReply" /\ H.holder = H.fwd
            /\ H.fwd # 0 => (H.pc = "waitReply") # (H.res # "none")
            /\ H.fwd = 0 => H.res = "none" /\ H.pc # "waitReply"
            /\ H.end = "abandoned" =>
                   H.fwd = 0 /\ H.holder = 0 /\ H.res = "none")
    /\ [][\A h \in Handlers :
             /\ handlers'[h].res # handlers[h].res =>
                    /\ handlers[h].res = "none"
                    /\ handlers[h].pc = "waitReply"
                    /\ handlers[h].holder # 0
                    /\ handlers'[h].holder = 0
             /\ handlers[h].res # "none" => handlers'[h].pc # "waitReply"
             /\ handlers[h].end = "abandoned" => handlers'[h] = handlers[h]]_vars

\* C16 witness: one handler was abandoned on cancellation while the other,
\* accepted, has read its reply
C16_Witness ==
    \E h, g \in Handlers :
        /\ handlers[h].end = "abandoned"
        /\ handlers[g].fwd # 0
        /\ handlers[g].res = "stream"
        /\ handlers[g].holder = 0

\* ---- C17
\* C17: a worker that has not yet had its closure taken or dropped (it is
\* running, or is sending its closure) is the registered worker of its
\* name; so in every step in which the loop takes the closure of a worker
\* the entry of the worker's name is that worker, and the branch that
\* ignores a stale closure is not taken.
C17_ClosureFindsOwnEntry ==
    /\ [](\A w \in created :
            workers[w].st \in {"running", "closing"} =>
                /\ workers[w].name \in DOMAIN remuxers
                /\ remuxers[workers[w].name] = w)
    /\ [][\A w \in WorkerIds :
             LoopRemuxerClose(w) =>
                 /\ workers[w].name \in DOMAIN remuxers
                 /\ remuxers[workers[w].name] = w
                 /\ workers[w].name \notin DOMAIN remuxers']_vars

\* C17 witness: while the service is live the closure of one worker was
\* taken by the loop, its name is registered no more, and a worker of
\* another name is running and registered
C17_Witness ==
    \E w1, w2 \in created :
        /\ ~cancelled
        /\ workers[w1].st = "closed"
        /\ workers[w1].name \notin DOMAIN remuxers
        /\ workers[w2].st = "running"
        /\ workers[w2].name # workers[w1].name
        /\ remuxers[workers[w2].name] = w2

\* ---- C18
\* C18: in every step in which the loop takes a request, the worker the
\* request is forwarded to has not closed: it is running.
C18_ForwardedToRunningWorker ==
    [][\A h \in Handlers :
          LoopRequest(h) => workers'[handlers'[h].fwd].st = "running"]_vars

\* ---- C19
\* the units close() waits for that have not finished: run(), written 0,
\* and the workers
unfinished ==
    (IF lpc # "done" THEN {0} ELSE {})
        \cup {w \in created : workers[w].st # "finished"}

\* C19: the wait group counts the unfinished units.  A worker is made only
\* in a step of the loop in its select, the loop itself still counted, and
\* is counted from that step on; the count never leaves zero, and once a
\* close() call has returned no worker is made.
C19_WorkersMadeWhileLoopCounted ==
    /\ [](wg = Cardinality(unfinished))
    /\ [][/\ created' # created =>
                /\ lpc = "select" /\ lpc' = "select"
                /\ 0 \in unfinished
                /\ wg >= 1
                /\ wg' = wg + 1
                /\ \A w \in created' \ created : w \in unfinished'
          /\ created \subseteq created'
          /\ wg = 0 => wg' = 0
          /\ (\E c \in Closers : closers[c] = "returned")
                => created' = created]_vars

\* C19 witness: the first close() call has returned after two workers had
\* been made; nothing is left to wait for
C19_Witness ==
    /\ closers["c1"] = "returned"
    /\ closers["c2"] = "idle"
    /\ Cardinality(created) = 2
    /\ unfinished = {}

\* ---- C20
\* C20: a request message about to be submitted to the loop never has the
\* empty resource name.
C20_NoEmptyResourceName ==
    \A h \in Handlers :
        handlers[h].pc = "submit" => handlers[h].msg.Dir # Empty

====
